---------------------------- MODULE Spec2Model ----------------------------
(***************************************************************************)
(* The encyclopedia request handlers of encyclopedia/views.py (index,      *)
(* entry, search, new, edit, random) over the file-backed entry store.     *)
(*                                                                         *)
(* Strings are sequences of one-character strings, so that lower(),        *)
(* casefold(), strip() and the substring test are computed, not assumed.   *)
(* The store is a sequence of [title, content] records in enumeration      *)
(* order; util.list_entries / get_entry / save_entry are not part of       *)
(* views.py and are modelled from the specification's section 4.1.         *)
(***************************************************************************)
EXTENDS Naturals, Sequences, FiniteSets

VARIABLES store,      \* the entry store: sequence of [title, content]
          req,        \* the request the last handler invocation served
          resp,       \* the response that invocation returned
          saved,      \* the save_entry calls that invocation made
          lastSaved,  \* history: title -> content of the latest saving submit
          replaced,   \* history: the content that invocation's save replaced
          cpc,        \* concurrent Create: each request's position
          cform,      \* concurrent Create: each request's cleaned form
          centries,   \* concurrent Create: each request's list_entries() result
          cresp,      \* concurrent Create: each request's response
          clobbered   \* concurrent Create: some save overwrote an existing entry

vars == <<store, req, resp, saved, lastSaved, replaced, cpc, cform, centries, cresp, clobbered>>

seqVars == <<store, req, resp, saved, lastSaved, replaced>>
concVars == <<cpc, cform, centries, cresp, clobbered>>

----------------------------------------------------------------------------
(* Bounds *)

\* most entries the store holds
MaxEntries == 2

\* concurrent Create requests in flight
NProcs == 2

----------------------------------------------------------------------------
(* Values *)

\* Python's None: request.GET.get("q") without the parameter, get_entry miss
None == <<"<None>">>

\* raw text a client can send (query, form fields)
RawStrs ==
    { <<>>, <<"a">>, <<"A">>, <<"a", "b">>, <<" ", "A">> }

\* raw text of the q parameter
Queries == RawStrs \cup { <<"B", " ">> }

\* <str:title> route parameter: any non-empty text
RouteTitles == RawStrs \ { <<>> }

\* raw text of the content field
RawContents == { <<" ">>, <<"x">>, <<"y", " ">> }

Methods == { "GET", "POST" }

----------------------------------------------------------------------------
(* str methods *)

lowerChar(c) ==
    CASE c = "A" -> "a"
      [] c = "B" -> "b"
      [] OTHER -> c

\* str.lower()
lower(s) == [i \in 1..Len(s) |-> lowerChar(s[i])]

casefoldChar(c) ==
    CASE c = "A" -> "a"
      [] c = "B" -> "b"
      [] OTHER -> c

\* str.casefold()
casefold(s) == [i \in 1..Len(s) |-> casefoldChar(s[i])]

isspace(c) == c = " "

RECURSIVE lstrip(_)
lstrip(s) ==
    IF s # <<>> /\ isspace(Head(s)) THEN lstrip(Tail(s)) ELSE s

RECURSIVE rstrip(_)
rstrip(s) ==
    IF s # <<>> /\ isspace(s[Len(s)]) THEN rstrip(SubSeq(s, 1, Len(s) - 1)) ELSE s

\* str.strip()
strip(s) == rstrip(lstrip(s))

\* Python's  q in s  on strings
contains(s, q) ==
    \E i \in 0..Len(s) : i + Len(q) <= Len(s) /\ SubSeq(s, i + 1, i + Len(q)) = q

----------------------------------------------------------------------------
(* Entry store (util) *)

list_entries(st) == [i \in 1..Len(st) |-> st[i].title]

get_entry(st, title) ==
    IF \E i \in 1..Len(st) : st[i].title = title
    THEN st[CHOOSE i \in 1..Len(st) : st[i].title = title].content
    ELSE None

\* st with e put before position k
InsertAt(st, k, e) == SubSeq(st, 1, k - 1) \o <<e>> \o SubSeq(st, k, Len(st))

\* The stores a save may leave: the entry overwritten in place, or a new
\* entry at whatever place the enumeration order gives it.
save_entry(st, title, content) ==
    IF \E i \in 1..Len(st) : st[i].title = title
    THEN { [i \in 1..Len(st) |->
              IF st[i].title = title
              THEN [title |-> title, content |-> content]
              ELSE st[i]] }
    ELSE { InsertAt(st, k, [title |-> title, content |-> content]) :
              k \in 1..(Len(st) + 1) }

----------------------------------------------------------------------------
(* Collaborators *)

\* markdown2.markdown on plain text
markdown(content) == <<"<p>">> \o content \o <<"</p>">>

\* CharField: required, stripped
fieldValid(raw) == raw # None /\ strip(raw) # <<>>

\* NewEntryForm(request.POST).is_valid()
NewEntryFormValid(form) == fieldValid(form.title) /\ fieldValid(form.content)

\* NewEditForm(request.POST).is_valid()
NewEditFormValid(form) == fieldValid(form.content)

\* form.cleaned_data[...]
cleaned(raw) == strip(raw)

----------------------------------------------------------------------------
(* Responses *)

Response(kind, title, content, list) ==
    [kind |-> kind, title |-> title, content |-> content, list |-> list]

NotFoundMsg == <<"The requested page was not found.">>
NoEntriesMsg == <<"No entries found.">>
ExistsMsg == <<" entry already exists.">>

ErrorPage(title, msg) == Response("error", title, msg, <<>>)
Redirect(title) == Response("redirect", title, None, <<>>)
Fault == Response("fault", None, None, <<>>)

Outcome(st, r, calls) == [store |-> st, resp |-> r, saves |-> calls]


----------------------------------------------------------------------------
(* Request handlers: each yields the set of outcomes the call may have *)

Min(S) == CHOOSE m \in S : \A n \in S : m <= n

index(st) ==
    { Outcome(st, Response("index", None, None, list_entries(st)), <<>>) }

\* entryMatch comparing the titles as they are, without casefold()
entryMatch_exact(entries, title) ==
    LET hits == { i \in 1..Len(entries) : entries[i] = title }
    IN  IF hits = {} THEN None ELSE entries[Min(hits)]

\* the for loop of entry: the first title equal to the request's after
\* casefold(); None when the loop ends without binding case_title
entryMatch(entries, title) ==
    LET hits == { i \in 1..Len(entries) : casefold(entries[i]) = casefold(title) }
    IN  IF hits = {} THEN None ELSE entries[Min(hits)]

entry(st, title) ==
    LET case_title == entryMatch(list_entries(st), title)
    IN  IF case_title = None
        THEN \* case_title is unbound in util.get_entry(case_title): UnboundLocalError
             { Outcome(st, Fault, <<>>) }
        ELSE LET content == get_entry(st, case_title)
             IN  IF content = None
                 THEN { Outcome(st, ErrorPage(None, NotFoundMsg), <<>>) }
                 ELSE { Outcome(st, Response("entry", case_title, markdown(content), <<>>), <<>>) }

\* searchLoop testing equality without lower()
RECURSIVE searchLoop_exactCase(_, _, _, _)
searchLoop_exactCase(entries, i, query, results) ==
    IF i > Len(entries)
    THEN Response("search", None, None, results)
    ELSE IF query = entries[i]
         THEN Redirect(entries[i])
         ELSE IF contains(lower(entries[i]), lower(query))
              THEN searchLoop_exactCase(entries, i + 1, query, Append(results, entries[i]))
              ELSE searchLoop_exactCase(entries, i + 1, query, results)

\* searchLoop testing the substring without lower()
RECURSIVE searchLoop_substrCase(_, _, _, _)
searchLoop_substrCase(entries, i, query, results) ==
    IF i > Len(entries)
    THEN Response("search", None, None, results)
    ELSE IF lower(query) = lower(entries[i])
         THEN Redirect(entries[i])
         ELSE IF contains(entries[i], query)
              THEN searchLoop_substrCase(entries, i + 1, query, Append(results, entries[i]))
              ELSE searchLoop_substrCase(entries, i + 1, query, results)

\* the for loop of search, from entries[i] on, with the results so far
RECURSIVE searchLoop(_, _, _, _)
searchLoop(entries, i, query, results) ==
    IF i > Len(entries)
    THEN Response("search", None, None, results)
    ELSE IF lower(query) = lower(entries[i])
         THEN Redirect(entries[i])
         ELSE IF contains(lower(entries[i]), lower(query))
              THEN searchLoop(entries, i + 1, query, Append(results, entries[i]))
              ELSE searchLoop(entries, i + 1, query, results)

search(st, q) ==
    IF q = None
    THEN \* request.GET.get("q") is None: None.strip() raises AttributeError
         { Outcome(st, Fault, <<>>) }
    ELSE { Outcome(st, searchLoop(list_entries(st), 1, strip(q), <<>>), <<>>) }

\* titleTaken comparing the titles as they are, without lower()
titleTaken_exact(entries, title) ==
    \E i \in 1..Len(entries) : entries[i] = title

\* the duplicate scan of new
titleTaken(entries, title) ==
    \E i \in 1..Len(entries) : lower(entries[i]) = lower(title)

NewFormPage == Response("new", None, None, <<>>)

new(st, method, form) ==
    IF method = "POST" /\ NewEntryFormValid(form)
    THEN LET title == cleaned(form.title)
             content == cleaned(form.content)
         IN  IF titleTaken(list_entries(st), title)
             THEN { Outcome(st, ErrorPage(title, title \o ExistsMsg), <<>>) }
             ELSE { Outcome(st2, Redirect(title), << <<title, content>> >>) :
                      st2 \in save_entry(st, title, content) }
    ELSE { Outcome(st, NewFormPage, <<>>) }

\* edit saving under the stored title that matches the route title after
\* casefold(), as entry looks titles up
edit_resolved(st, method, title, form) ==
    IF method = "POST" /\ NewEditFormValid(form)
    THEN LET content == cleaned(form.content)
             match == entryMatch(list_entries(st), title)
             target == IF match = None THEN title ELSE match
         IN  { Outcome(st2, Redirect(title), << <<target, content>> >>) :
                 st2 \in save_entry(st, target, content) }
    ELSE { Outcome(st, Response("edit", title, get_entry(st, title), <<>>), <<>>) }

edit(st, method, title, form) ==
    IF method = "POST" /\ NewEditFormValid(form)
    THEN LET content == cleaned(form.content)
         IN  { Outcome(st2, Redirect(title), << <<title, content>> >>) :
                 st2 \in save_entry(st, title, content) }
    ELSE { Outcome(st, Response("edit", title, get_entry(st, title), <<>>), <<>>) }

\* random without the empty-list check: choice([]) raises IndexError
random_unchecked(st) ==
    LET entries == list_entries(st)
    IN  IF entries = <<>>
        THEN { Outcome(st, Fault, <<>>) }
        ELSE { Outcome(st, Redirect(entries[i]), <<>>) : i \in 1..Len(entries) }

random(st) ==
    LET entries == list_entries(st)
    IN  IF entries = <<>>
        THEN { Outcome(st, ErrorPage(None, NoEntriesMsg), <<>>) }
        ELSE { Outcome(st, Redirect(entries[i]), <<>>) : i \in 1..Len(entries) }

----------------------------------------------------------------------------
(* One handler invocation at a time *)

NoForm == [title |-> None, content |-> None]

Request(handler, method, title, q, form) ==
    [handler |-> handler, method |-> method, title |-> title, q |-> q, form |-> form]

NoRequest == Request("none", "GET", None, None, NoForm)
NoResponse == Response("none", None, None, <<>>)

InitRequests ==
    /\ req = NoRequest
    /\ resp = NoResponse
    /\ saved = <<>>
    /\ lastSaved = [t \in RouteTitles |-> None]
    /\ cpc = [p \in 1..NProcs |-> "idle"]
    /\ cform = [p \in 1..NProcs |-> NoForm]
    /\ centries = [p \in 1..NProcs |-> <<>>]
    /\ cresp = [p \in 1..NProcs |-> NoResponse]
    /\ clobbered = FALSE
    /\ replaced = None

Init ==
    /\ store = <<>>
    /\ InitRequests

\* the invocation r ended with outcome o
Serve(r, o) ==
    /\ Len(o.store) <= MaxEntries
    /\ store' = o.store
    /\ req' = r
    /\ resp' = o.resp
    /\ saved' = o.saves
    /\ replaced' = IF o.saves = <<>> THEN None ELSE get_entry(store, o.saves[1][1])
    /\ UNCHANGED concVars

Index ==
    \E o \in index(store) :
        /\ Serve(Request("index", "GET", None, None, NoForm), o)
        /\ UNCHANGED lastSaved

Entry ==
    \E title \in RouteTitles : \E o \in entry(store, title) :
        /\ Serve(Request("entry", "GET", title, None, NoForm), o)
        /\ UNCHANGED lastSaved

Search ==
    \E q \in Queries \cup {None} : \E o \in search(store, q) :
        /\ Serve(Request("search", "GET", None, q, NoForm), o)
        /\ UNCHANGED lastSaved

New ==
    \E method \in Methods :
    \E form \in IF method = "POST"
                THEN [title : RawStrs, content : RawContents]
                ELSE {NoForm} :
    \E o \in new(store, method, form) :
        /\ Serve(Request("new", method, None, None, form), o)
        /\ lastSaved' = IF o.resp.kind = "redirect"
                        THEN [lastSaved EXCEPT ![strip(form.title)] = strip(form.content)]
                        ELSE lastSaved

Edit ==
    \E method \in Methods : \E title \in RouteTitles :
    \E form \in IF method = "POST"
                THEN [title : {None}, content : RawContents]
                ELSE {NoForm} :
    \E o \in edit(store, method, title, form) :
        /\ Serve(Request("edit", method, title, None, form), o)
        /\ lastSaved' = IF method = "POST" /\ strip(form.content) # <<>>
                        THEN [lastSaved EXCEPT ![title] = strip(form.content)]
                        ELSE lastSaved

Random ==
    \E o \in random(store) :
        /\ Serve(Request("random", "GET", None, None, NoForm), o)
        /\ UNCHANGED lastSaved

Next == Index \/ Entry \/ Search \/ New \/ Edit \/ Random

Spec == Init /\ [][Next]_vars

----------------------------------------------------------------------------
(* Concurrent Create submits: list_entries() and save_entry() of one        *)
(* request are separate steps, and other requests may run between them      *)

Procs == 1..NProcs

\* forms the concurrent requests submit
ConcForms == [title : { <<"a">>, <<"A">>, <<"a", "b">> }, content : { <<"x">>, <<"y", " ">>, <<" ">> }]

\* stores without case-insensitive duplicates the requests start from
ConcStores == { <<>>, << [title |-> <<"A">>, content |-> <<"x">>] >> }

InitConc ==
    /\ store \in ConcStores
    /\ InitRequests

\* new, up to and including entries = util.list_entries()
NewList(p) ==
    \E form \in ConcForms :
        /\ cpc[p] = "idle"
        /\ IF NewEntryFormValid(form)
           THEN /\ cform' = [cform EXCEPT ![p] =
                       [title |-> cleaned(form.title), content |-> cleaned(form.content)]]
                /\ centries' = [centries EXCEPT ![p] = list_entries(store)]
                /\ cpc' = [cpc EXCEPT ![p] = "listed"]
                /\ UNCHANGED cresp
           ELSE /\ cresp' = [cresp EXCEPT ![p] = NewFormPage]
                /\ cpc' = [cpc EXCEPT ![p] = "done"]
                /\ UNCHANGED <<cform, centries>>
        /\ UNCHANGED <<clobbered, seqVars>>

\* new, from the duplicate scan on: the scan reads the request's own list
NewSave(p) ==
    /\ cpc[p] = "listed"
    /\ cpc' = [cpc EXCEPT ![p] = "done"]
    /\ IF titleTaken(centries[p], cform[p].title)
       THEN /\ cresp' = [cresp EXCEPT ![p] =
                   ErrorPage(cform[p].title, cform[p].title \o ExistsMsg)]
            /\ UNCHANGED <<store, clobbered>>
       ELSE /\ store' \in save_entry(store, cform[p].title, cform[p].content)
            /\ Len(store') <= MaxEntries
            /\ clobbered' = (clobbered \/ get_entry(store, cform[p].title) # None)
            /\ cresp' = [cresp EXCEPT ![p] = Redirect(cform[p].title)]
    /\ UNCHANGED <<cform, centries, req, resp, saved, lastSaved, replaced>>

NextConc == \E p \in Procs : NewList(p) \/ NewSave(p)

SpecConc == InitConc /\ [][NextConc]_vars

----------------------------------------------------------------------------
(* Properties *)

Titles(st) == { st[i].title : i \in 1..Len(st) }

\* no two entries of st have titles equal after case folding
NoCaseDup(st) ==
    \A i, j \in 1..Len(st) :
        casefold(st[i].title) = casefold(st[j].title) => i = j

\* the trimmed query of the search request served last
Query == strip(req.q)

\* C1: in every state reachable from the empty store by handler invocations
\* run one at a time, no two stored titles are equal after case folding.
C1_OneEntryPerFoldedTitle == NoCaseDup(store)

\* C2: entry called with a title that matches no stored title after case
\* folding ends in the 'not found' error page, never in a fault.
C2_MissingTitleIsNotFound ==
    (/\ req.handler = "entry"
     /\ \A t \in Titles(store) : casefold(t) # casefold(req.title))
    => resp = ErrorPage(None, NotFoundMsg)

\* C3: entry called with a title equal after case folding to a stored title
\* renders the first such entry in enumeration order: its stored title is
\* the displayed title and its stored content, converted to HTML, the body.
C3_ViewCaseInsensitive ==
    req.handler = "entry" =>
        \A i \in 1..Len(store) :
            (/\ casefold(store[i].title) = casefold(req.title)
             /\ \A j \in 1..(i - 1) : casefold(store[j].title) # casefold(req.title))
            => resp = Response("entry", store[i].title, markdown(store[i].content), <<>>)

\* a view by a differently-cased title, with two stored titles matching
C3_Witness ==
    /\ req.handler = "entry"
    /\ resp.kind = "entry"
    /\ resp.title # req.title
    /\ \E i, j \in 1..Len(store) :
          /\ i < j
          /\ casefold(store[i].title) = casefold(req.title)
          /\ casefold(store[j].title) = casefold(req.title)
          /\ resp.title = store[i].title

\* a stored title equals the trimmed query case-insensitively
QueryHitsTitle == \E t \in Titles(store) : lower(t) = lower(Query)

\* C4 as stated: every search invocation ends in a redirect or in a results
\* page, and a query equal to a stored title case-insensitively (after
\* trimming) ends in a redirect to such a stored title.
C4_Original ==
    req.handler = "search" =>
        /\ resp.kind \in {"redirect", "search"}
        /\ (req.q # None /\ QueryHitsTitle) =>
              /\ resp.kind = "redirect"
              /\ resp.title \in Titles(store)
              /\ lower(resp.title) = lower(Query)

\* C4 amended: every search invocation that carries the q parameter ends in
\* a redirect or in a results page, and then a query equal to a stored title
\* case-insensitively (after trimming) ends in a redirect to such a stored
\* title, whatever the enumeration order and the substring matches.
C4_SearchExactRedirects ==
    (req.handler = "search" /\ req.q # None) =>
        /\ resp.kind \in {"redirect", "search"}
        /\ QueryHitsTitle =>
              /\ resp = Redirect(resp.title)
              /\ resp.title \in Titles(store)
              /\ lower(resp.title) = lower(Query)

\* a redirect to the second entry, the first one holding the query as a
\* proper substring, for a query that needed trimming and case folding
C4_Witness ==
    /\ req.handler = "search"
    /\ req.q # None
    /\ resp.kind = "redirect"
    /\ Len(store) = 2
    /\ resp.title = store[2].title
    /\ contains(lower(store[1].title), lower(Query))
    /\ req.q # resp.title

\* C5: search with a trimmed query equal to no stored title
\* case-insensitively renders the results page listing exactly the stored
\* titles that contain the query case-insensitively, each once.
C5_SearchListsSubstringMatches ==
    (req.handler = "search" /\ req.q # None /\ ~QueryHitsTitle) =>
        LET matching == { t \in Titles(store) : contains(lower(t), lower(Query)) }
        IN  /\ resp.kind = "search"
            /\ { resp.list[i] : i \in 1..Len(resp.list) } = matching
            /\ Len(resp.list) = Cardinality(matching)

\* a results page listing one stored title and leaving out another, for a
\* query matching only after trimming and case folding
C5_Witness ==
    /\ req.handler = "search"
    /\ req.q # None
    /\ resp.kind = "search"
    /\ Len(resp.list) = 1
    /\ Len(store) = 2
    /\ ~contains(resp.list[1], req.q)

\* C6: a Create submit whose validated title equals a stored title
\* case-insensitively returns the error page, leaves the store as it was and
\* makes no save_entry call.
C6_DuplicateCreateRefused ==
    [][(/\ req'.handler = "new"
        /\ req'.method = "POST"
        /\ NewEntryFormValid(req'.form)
        /\ \E t \in Titles(store) : lower(t) = lower(strip(req'.form.title)))
       => (/\ resp'.kind = "error"
           /\ store' = store
           /\ saved' = <<>>)]_vars

\* a Create refused for a title stored only in another case
C6_Witness ==
    /\ req.handler = "new"
    /\ resp.kind = "error"
    /\ store # <<>>
    /\ strip(req.form.title) \notin Titles(store)

C8_RandomRedirectsIffNonEmpty ==
    req.handler = "random" =>
        /\ resp.kind = "redirect" <=> store # <<>>
        /\ store = <<>> => resp = ErrorPage(None, NoEntriesMsg)
        /\ store # <<>> => resp.title \in Titles(store)

\* a redirect to the second of two entries
C8_Witness ==
    /\ req.handler = "random"
    /\ resp.kind = "redirect"
    /\ Len(store) = 2
    /\ resp.title = store[2].title

\* C9: the set of stored titles changes only by a successful Create adding
\* its title; no other invocation changes it and no title is removed.
C9_OnlyCreateAddsTitles ==
    [][/\ Titles(store) \subseteq Titles(store')
       /\ Titles(store') # Titles(store) =>
             /\ req'.handler = "new"
             /\ resp'.kind = "redirect"
             /\ Titles(store') = Titles(store) \cup {resp'.title}]_vars

\* C10 as stated: with Create submits interleaved between their
\* list_entries() and save_entry() steps, no two stored titles are equal
\* after case folding and no Create overwrites a saved entry.
C10_Original == NoCaseDup(store) /\ ~clobbered

\* C10 amended: a Create whose list_entries() result still is the store's
\* enumeration when it saves keeps the stored titles distinct after case
\* folding and overwrites nothing.
C10_FreshListKeepsUnique ==
    [][\A p \in Procs :
          (/\ cpc[p] = "listed"
           /\ cpc'[p] = "done"
           /\ centries[p] = list_entries(store)
           /\ NoCaseDup(store))
          => (NoCaseDup(store') /\ clobbered' = clobbered)]_vars

\* one Create saved its title and another, submitted in another case, found
\* it in its list and was refused
C10_Witness ==
    \E p, q \in Procs :
        /\ cresp[p].kind = "redirect"
        /\ cresp[q].kind = "error"
        /\ Titles(store) = {cform[p].title}
        /\ cform[q].title # cform[p].title
        /\ ~clobbered

=============================================================================
